---- MODULE Spec2Model ----
(***************************************************************************)
(* wgmesh: the mesh registry (Config, src/lib.rs), the event type and its   *)
(* v1-uuid ids (src/lib.rs) and the coordination server's handlers over the *)
(* Mutex-guarded AppState (src/server.rs).                                  *)
(***************************************************************************)
EXTENDS Integers, Sequences, FiniteSets, TLC

VARIABLES
    remote_hosts,   \* Config.remote_hosts: HashMap<IpNet, Host>, a function on the registered addresses
    events,         \* AppState.events: LruCache<Uuid, Event>, least recently used first
    created,        \* history: the ids of the events Event::new built, in creation order
    now,            \* the system clock, in seconds (SystemTime::now / Utc::now)
    lock,           \* holder of the Mutex<AppState>: Some(caller), or None when free
    poisoned,       \* the Mutex was poisoned by a panic of a handler holding it
    pc,             \* per caller: where its connect handler stands
    req,            \* per caller: the Host of the request body ({} when none)
    response,       \* what the server answered last
    hostname_len,   \* length in bytes of what `hostname` prints on this machine
    call,           \* the last call of a pure function: its arguments and what it returned
    file,           \* the registry persisted at the config path (None when no readable file)
    main_pc         \* where main() stands

vars == <<remote_hosts, events, created, now, lock, poisoned, pc, req, response, hostname_len,
         call, file, main_pc>>

----------------------------------------------------------------------------
(* Bounds of the model *)

NumCallers == 2
MaxTime == 2
\* connects allowed in a run over the full registry
MaxConnects == 1
\* capacity of the event log in the model; the server builds it with 1000
EventCapacity == 2
\* lines of an interface listing
MaxLines == 3

(* Program constants *)

\* Uuid::new_v1 takes a node id of exactly 6 bytes; uuidv1 pads shorter names to 6
NodeIdLen == 6
\* the v1 clock sequence keeps 14 bits of the Context counter
ClockSeqMod == 2 ^ 14

Callers == 1 .. NumCallers
Names == {"alice", "bob"}
Addrs == {"10.42.0.1/32", "10.42.0.2/32"}
\* Option<T>: None is the empty set, Some(x) the singleton
None == {}
Some(x) == {x}
\* seeds rand::random() may give the uuid Context (u16): two that differ, one that
\* agrees with the first in its low 14 bits
Seeds == {0, 1, ClockSeqMod}
\* a machine whose hostname fits the node id, and one whose hostname does not
HostnameLens == {5, 9}

----------------------------------------------------------------------------
(* Host, src/host.rs *)

Host(n, a, ls) ==
    [name |-> n, last_seen |-> ls, wireguard_address |-> a,
     public_key |-> "", private_key |-> "", interfaces |-> <<>>]

\* TryFrom<&clap::ArgMatches> for Host: the host the command line describes
HostTryFrom(n, a) == Host(n, a, None)

\* a connect body is any Host the client serialises: last_seen is the client's to
\* fill, absent or a time of its own (0, before the server's clock started)
ConnectHosts == {Host(n, a, ls) : n \in Names, a \in Addrs, ls \in {None, Some(0)}}
CliHosts == {HostTryFrom(n, a) : n \in Names, a \in Addrs}

----------------------------------------------------------------------------
(* Config, src/lib.rs *)

MapInsert(m, k, v) == [x \in DOMAIN m \cup {k} |-> IF x = k THEN v ELSE m[x]]
MapRemove(m, k) == [x \in DOMAIN m \ {k} |-> m[x]]

\* add_host without the scan for the name
add_host_unchecked(hosts, host) ==
    [ok |-> TRUE, hosts |-> MapInsert(hosts, host.wireguard_address, host)]

\* Config::add_host: Err when an existing host has the name, else insert at the address
add_host(hosts, host) ==
    IF \E a \in DOMAIN hosts : hosts[a].name = host.name
    THEN [ok |-> FALSE, hosts |-> hosts]
    ELSE [ok |-> TRUE, hosts |-> MapInsert(hosts, host.wireguard_address, host)]

\* a remove_host that empties the registry
remove_host_all(hosts, ip) == <<>>

\* Config::remove_host
remove_host(hosts, ip) == MapRemove(hosts, ip)

\* Config::hosts_by_name: one entry per name; when several hosts carry a name the
\* one the HashMap iterates last wins, so every choice is a possible result
hosts_by_name(hosts) ==
    LET names == {hosts[a].name : a \in DOMAIN hosts}
    IN {f \in [names -> {hosts[a] : a \in DOMAIN hosts}] : \A n \in names : f[n].name = n}

----------------------------------------------------------------------------
(* Event and its id, src/lib.rs *)

Max(a, b) == IF a >= b THEN a ELSE b

\* A u64 tick count is held as its 8 bytes, least significant first (byte k at
\* index k + 1), so that no intermediate value leaves the range of the integers.
\* Timestamp::from_unix(context, seconds, 0): the 100 ns ticks between the
\* Gregorian epoch and the Unix epoch, 0x01B21DD213814000, ...
UUID_TICKS_BETWEEN_EPOCHS == <<0, 64, 129, 19, 210, 29, 178, 1>>
\* ... and the 10 000 000 ticks of a second, 0x989680
TicksPerSecond == <<128, 150, 152>>

\* byte k of a number of seconds
SecsByte(secs, k) == IF k < 0 \/ k > 3 THEN 0 ELSE (secs \div (256 ^ k)) % 256

\* column k of UUID_TICKS_BETWEEN_EPOCHS + secs * 10 000 000, before the carries
TickColumn(secs, k) ==
    UUID_TICKS_BETWEEN_EPOCHS[k + 1]
    + SecsByte(secs, k) * TicksPerSecond[1]
    + SecsByte(secs, k - 1) * TicksPerSecond[2]
    + SecsByte(secs, k - 2) * TicksPerSecond[3]

\* the 8 bytes of the ticks of the clock reading `secs`, wrapping as the u64 does:
\* each column takes the carry of the one below it
Ticks(secs) ==
    LET t0 == TickColumn(secs, 0)
        t1 == TickColumn(secs, 1) + (t0 \div 256)
        t2 == TickColumn(secs, 2) + (t1 \div 256)
        t3 == TickColumn(secs, 3) + (t2 \div 256)
        t4 == TickColumn(secs, 4) + (t3 \div 256)
        t5 == TickColumn(secs, 5) + (t4 \div 256)
        t6 == TickColumn(secs, 6) + (t5 \div 256)
        t7 == TickColumn(secs, 7) + (t6 \div 256)
    IN <<t0 % 256, t1 % 256, t2 % 256, t3 % 256, t4 % 256, t5 % 256, t6 % 256, t7 % 256>>

\* Uuid::new_v1(ts, node): time_low is the low 32 bits of the ticks, time_mid the
\* next 16, time_high_and_version the next 12 under the version nibble 1, each
\* stored most significant byte first; the clock sequence keeps the low 14 bits
\* of the Context counter
new_v1(secs, counter) ==
    LET b == Ticks(secs)
    IN [time_low |-> <<b[4], b[3], b[2], b[1]>>,
        time_mid |-> <<b[6], b[5]>>,
        time_high_and_version |-> <<16 + (b[8] % 16), b[7]>>,
        clock_seq |-> counter % ClockSeqMod]

\* uuidv1: the node id is padded to at least 6 bytes and Uuid::new_v1 refuses any
\* other length; the id is built from the clock in whole seconds and a Context
\* counter seeded afresh from rand::random() on every call
uuidv1(node_len, secs, seed) ==
    IF Max(node_len, NodeIdLen) = NodeIdLen
    THEN [ok |-> TRUE, id |-> new_v1(secs, seed)]
    ELSE [ok |-> FALSE]

\* the fields of an id in the order of its bytes (the node, one per machine, left out)
IdBytes(id) == id.time_low \o id.time_mid \o id.time_high_and_version \o <<id.clock_seq>>

\* the order of Uuid values, the derived Ord: byte by byte, time_low first
IdLess(a, b) ==
    \E k \in 1 .. Len(IdBytes(a)) :
        /\ IdBytes(a)[k] < IdBytes(b)[k]
        /\ \A i \in 1 .. k - 1 : IdBytes(a)[i] = IdBytes(b)[i]

\* Event::new with EventData::Connect { host }
EventConnect(host, id, t) ==
    [id |-> id, created_at |-> t, data |-> [kind |-> "Connect", host |-> host]]

----------------------------------------------------------------------------
(* LruCache<Uuid, Event> as the server uses it: new(cap) and put *)

Keys(cache) == {cache[i].key : i \in 1 .. Len(cache)}
Without(cache, k) == SelectSeq(cache, LAMBDA en : en.key # k)

\* a put that never evicts
LruPutUnbounded(cache, cap, k, v) ==
    Append(Without(cache, k), [key |-> k, value |-> v])

\* LruCache::put: an existing key is updated and becomes the most recent; a new key
\* evicts the least recent entry when the cache is full
LruPut(cache, cap, k, v) ==
    LET entry == [key |-> k, value |-> v]
    IN IF k \in Keys(cache) THEN Append(Without(cache, k), entry)
       ELSE IF Len(cache) >= cap THEN Append(Tail(cache), entry)
       ELSE Append(cache, entry)

----------------------------------------------------------------------------
(* generate_ipv6, src/host.rs *)

\* a u64 is held as its four 16-bit words, most significant first, so that
\* `(x >> 48) as u16`, `(x >> 32) as u16`, `(x >> 16) as u16` and `x as u16` are
\* its words 1 to 4
U16 == 2 ^ 16
Zero64 == <<0, 0, 0, 0>>
\* x >= n for a u64 x and an n below 2^16
GeU64(x, n) == x[1] # 0 \/ x[2] # 0 \/ x[3] # 0 \/ x[4] >= n
UnwrapOr(opt, default) == IF opt = None THEN default ELSE CHOOSE x \in opt : TRUE

\* generate_ipv6 with the range check left out
generate_ipv6_unchecked(global_id, subnet_id, iface_id, random) ==
    LET gid == UnwrapOr(global_id, Zero64)
        iface == UnwrapOr(iface_id, random)
    IN [kind |-> "ok",
        addr |-> <<(64512 + gid[2]) % U16, gid[3], gid[4], UnwrapOr(subnet_id, 0),
                   iface[1], iface[2], iface[3], iface[4]>>]

\* generate_ipv6: `random` is what rand::random() gives when iface_id is None.
\* base_prefix is 0xfc00 and the bound on global_id is 40_u64.pow(2); the u16 sum
\* of the first segment overflows (a panic in a debug build) above 0xffff
generate_ipv6(global_id, subnet_id, iface_id, random) ==
    LET base_prefix == 64512
        gid == UnwrapOr(global_id, Zero64)
        subnet == UnwrapOr(subnet_id, 0)
        iface == UnwrapOr(iface_id, random)
    IN IF GeU64(gid, 40 ^ 2)
       THEN [kind |-> "err", msg |-> "global_id may only be 40 bits wide"]
       ELSE IF base_prefix + gid[2] >= U16
       THEN [kind |-> "overflow"]
       ELSE [kind |-> "ok",
             addr |-> <<base_prefix + gid[2], gid[3], gid[4], subnet,
                        iface[1], iface[2], iface[3], iface[4]>>]

\* arguments: global ids on both sides of 40^2 and of 2^40, the extremes of the
\* subnet id, two interface ids
GlobalIds ==
    {<<w1, w2, w3, w4>> : w1 \in {0, 1}, w2 \in {0, 1, 255, 256}, w3 \in {0, 1},
                          w4 \in {0, 1599, 1600, 65535}}
SubnetIds == {0, 1, 65535}
IfaceIds == {<<0, 0, 0, 1>>, <<65535, 1, 2, 3>>}
Opt(S) == {None} \cup {Some(x) : x \in S}

NoCall == [fn |-> "none"]

----------------------------------------------------------------------------
(* Interface, src/host.rs *)

\* A line of `ip addr show` is held as what the four regexes capture in it:
\* IFACE_NAME (name), IFACE_STATE (state), IFACE_MAC (mac), IFACE_ADDR_RE (addr)
Line(name, state, mac, addr) == [name |-> name, state |-> state, mac |-> mac, addr |-> addr]
\* "2: eth0: <BROADCAST,UP> mtu 1500 state UP", the same without a state, a link/ether
\* line, an inet line, an inet line whose token is no network, any other line
HeaderLine == Line(Some("eth0"), Some("UP"), None, None)
HeaderNoState == Line(Some("eth0"), None, None, None)
LinkLine == Line(None, None, Some("52:54:00:12:34:56"), None)
InetLine == Line(None, None, None, Some("192.168.1.5/24"))
BadInetLine == Line(None, None, None, Some("999.1.1.1/24"))
OtherLine == Line(None, None, None, None)
LineKinds == {HeaderLine, HeaderNoState, LinkLine, InetLine, BadInetLine, OtherLine}
\* the tokens str::parse::<IpNet> accepts
ParsesAsIpNet(token) == token \in {"192.168.1.5/24"}
Texts == UNION {[1 .. n -> LineKinds] : n \in 0 .. MaxLines}

Unwrap(opt) == CHOOSE x \in opt : TRUE
ParseErr(what) == [kind |-> "err", msg |-> what]
Panic == [kind |-> "panic"]

\* the filter_map over lines.iter().skip(2)
Addresses(lines) ==
    LET rest == SubSeq(lines, 3, Len(lines))
        kept == SelectSeq(rest, LAMBDA l : l.addr # None /\ ParsesAsIpNet(Unwrap(l.addr)))
    IN [i \in 1 .. Len(kept) |-> Unwrap(kept[i].addr)]

\* Interface::from_str: lines[0] and lines[1] are indexed, which panics when the
\* text has no such line
from_str(lines) ==
    IF Len(lines) < 1 THEN Panic
    ELSE IF lines[1].name = None THEN ParseErr("unable to parse interface name")
    ELSE IF lines[1].state = None THEN ParseErr("unable to parse interface state")
    ELSE IF Len(lines) < 2 THEN Panic
    ELSE IF lines[2].mac = None THEN ParseErr("unable to parse MAC address")
    ELSE [kind |-> "ok",
          interface |-> [name |-> Unwrap(lines[1].name), mac |-> Unwrap(lines[2].mac),
                         state |-> Unwrap(lines[1].state), addresses |-> Addresses(lines)]]

\* the fold of Interface::local: a header line opens a block, any other line joins
\* the last block, and acc.pop().unwrap() panics when there is none
RECURSIVE Blocks(_, _)
Blocks(lines, acc) ==
    IF lines = <<>> THEN [kind |-> "ok", blocks |-> acc]
    ELSE IF Head(lines).name # None THEN Blocks(Tail(lines), Append(acc, <<Head(lines)>>))
    ELSE IF acc = <<>> THEN Panic
    ELSE Blocks(Tail(lines),
                [acc EXCEPT ![Len(acc)] = Append(acc[Len(acc)], Head(lines))])

\* Interface::local on the text `ip addr show` printed: every block is parsed and
\* unwrapped
local(lines) ==
    LET folded == Blocks(lines, <<>>)
    IN IF folded.kind = "panic" THEN Panic
       ELSE IF \E i \in 1 .. Len(folded.blocks) : from_str(folded.blocks[i]).kind # "ok"
       THEN Panic
       ELSE [kind |-> "ok",
             interfaces |-> [i \in 1 .. Len(folded.blocks) |->
                                from_str(folded.blocks[i]).interface]]

----------------------------------------------------------------------------
(* The server, src/server.rs *)

\* the match without the stamp: the entry becomes the host as submitted
connect_entry_unstamped(hosts, host, t) ==
    IF host.wireguard_address \in DOMAIN hosts
    THEN [hosts EXCEPT ![host.wireguard_address] = host]
    ELSE hosts

\* the match on remote_hosts.get_mut(&host.wireguard_address) in connect
connect_entry(hosts, host, t) ==
    IF host.wireguard_address \in DOMAIN hosts
    THEN [hosts EXCEPT ![host.wireguard_address] = [host EXCEPT !.last_seen = Some(t)]]
    ELSE hosts

TheReq(c) == CHOOSE h \in req[c] : TRUE

\* the clock readings a run starts at: one second after the Unix epoch, and the
\* second before time_low wraps (1761860407 s is 30 October 2025)
StartTimes == {1, 1761860406}

\* the clock may move on from t: runs observe MaxTime readings from their start
CanAdvance(t) == \E s \in StartTimes : s <= t /\ t + 1 < s + MaxTime

\* what a second reading of the clock can show after a reading of t
LaterReadings(t) == {t} \cup {u \in {t + 1} : CanAdvance(t)}

Init ==
    /\ remote_hosts = <<>>
    /\ events = <<>>
    /\ created = <<>>
    /\ now = 1
    /\ lock = None
    /\ poisoned = FALSE
    /\ pc = [c \in Callers |-> "idle"]
    /\ req = [c \in Callers |-> None]
    /\ response = "none"
    /\ hostname_len \in HostnameLens
    /\ call = NoCall
    /\ file = Some(remote_hosts)
    /\ main_pc = "server"

\* a lock() that hands out the guard of a poisoned Mutex
connect_lock_ignoring_poison(c, host) ==
    /\ pc[c] = "idle"
    /\ lock = None
    /\ lock' = Some(c)
    /\ pc' = [pc EXCEPT ![c] = "event"]
    /\ req' = [req EXCEPT ![c] = Some(host)]
    /\ UNCHANGED <<remote_hosts, events, created, now, poisoned, response, hostname_len,
                   call, file, main_pc>>

\* connect, state.lock(): a poisoned lock answers 500, a free one is taken
connect_lock(c, host) ==
    /\ pc[c] = "idle"
    /\ lock = None
    /\ IF poisoned
       THEN /\ response' = "500"
            /\ UNCHANGED <<lock, pc, req>>
       ELSE /\ lock' = Some(c)
            /\ pc' = [pc EXCEPT ![c] = "event"]
            /\ req' = [req EXCEPT ![c] = Some(host)]
            /\ UNCHANGED response
    /\ UNCHANGED <<remote_hosts, events, created, now, poisoned, hostname_len, call, file, main_pc>>

\* connect, Event::connect(host.clone()) and state.events.put(event.id, event); the
\* unwrap in Event::new panics when uuidv1 fails, which poisons the lock held.
\* Event::new reads the clock twice, in uuidv1 (timestamp) for the id and then in
\* Utc::now() for created_at: `now` is the first reading, t the second
connect_event(c, seed, t) ==
    /\ pc[c] = "event"
    /\ t \in LaterReadings(now)
    /\ LET u == uuidv1(hostname_len, now, seed)
       IN IF u.ok
          THEN LET event == EventConnect(TheReq(c), u.id, t)
               IN /\ events' = LruPut(events, EventCapacity, event.id, event)
                  /\ created' = Append(created, event.id)
                  /\ pc' = [pc EXCEPT ![c] = "update"]
                  /\ now' = t
                  /\ UNCHANGED <<lock, poisoned, req, response>>
          ELSE /\ t = now
               /\ poisoned' = TRUE
               /\ lock' = None
               /\ pc' = [pc EXCEPT ![c] = "idle"]
               /\ req' = [req EXCEPT ![c] = None]
               /\ response' = "panic"
               /\ UNCHANGED <<events, created, now>>
    /\ UNCHANGED <<remote_hosts, hostname_len, call, file, main_pc>>

\* connect, the registry update, Ok(output) and the release of the lock
connect_update(c) ==
    /\ pc[c] = "update"
    /\ remote_hosts' = connect_entry(remote_hosts, TheReq(c), now)
    /\ lock' = None
    /\ pc' = [pc EXCEPT ![c] = "idle"]
    /\ req' = [req EXCEPT ![c] = None]
    /\ response' = "connect"
    /\ UNCHANGED <<events, created, now, poisoned, hostname_len, call, file, main_pc>>

\* disconnect: answers "disconnect"
disconnect(c, address) ==
    /\ pc[c] = "idle"
    /\ response' = "disconnect"
    /\ UNCHANGED <<remote_hosts, events, created, now, lock, poisoned, pc, req, hostname_len, call, file, main_pc>>

\* list_events: answers "list_events"
list_events(c) ==
    /\ pc[c] = "idle"
    /\ response' = "list_events"
    /\ UNCHANGED <<remote_hosts, events, created, now, lock, poisoned, pc, req, hostname_len, call, file, main_pc>>

\* info: the lock, a clone of the network config, the release
info(c) ==
    /\ pc[c] = "idle"
    /\ lock = None
    /\ response' = IF poisoned THEN "500" ELSE "info"
    /\ UNCHANGED <<remote_hosts, events, created, now, lock, poisoned, pc, req, hostname_len, call, file, main_pc>>

\* a call of Config::add_host on the registry; exclusive access (&mut) to the
\* registry of a running server is only had through its lock
AddHost(host) ==
    /\ lock = None
    /\ ~poisoned
    /\ remote_hosts' = add_host(remote_hosts, host).hosts
    /\ UNCHANGED <<events, created, now, lock, poisoned, pc, req, response, hostname_len, call, file, main_pc>>

\* a call of Config::remove_host on the registry
RemoveHost(ip) ==
    /\ lock = None
    /\ ~poisoned
    /\ remote_hosts' = remove_host(remote_hosts, ip)
    /\ UNCHANGED <<events, created, now, lock, poisoned, pc, req, response, hostname_len, call, file, main_pc>>

\* the clock advances
Tick ==
    /\ CanAdvance(now)
    /\ now' = now + 1
    /\ UNCHANGED <<remote_hosts, events, created, lock, poisoned, pc, req, response, hostname_len, call, file, main_pc>>

\* the three steps of a connect request, for bodies among `hosts` and Context seeds
\* among `seeds`, in runs of at most `max` events
Connect(hosts, seeds, max) ==
    \/ \E c \in Callers, host \in hosts :
          Len(created) < max /\ connect_lock(c, host)
    \/ \E c \in Callers, seed \in seeds, t \in LaterReadings(now) : connect_event(c, seed, t)
    \/ \E c \in Callers : connect_update(c)

Stubs ==
    \/ \E c \in Callers, a \in Addrs : disconnect(c, a)
    \/ \E c \in Callers : list_events(c)

Registry(hosts) ==
    \/ \E host \in hosts : AddHost(host)
    \/ \E host \in hosts : RemoveHost(host.wireguard_address)

\* The registry and the handlers over every host and name; every Context starts at
\* the same seed
FixedSeed == {0}
Next ==
    \/ Connect(ConnectHosts, FixedSeed, MaxConnects)
    \/ Stubs
    \/ \E c \in Callers : info(c)
    \/ Registry(CliHosts)
    \/ Tick

Spec == Init /\ [][Next]_vars

\* The event log and the event ids over every Context seed, with one host and
\* up to two events more than the log holds
OneHost == {Host("alice", "10.42.0.1/32", None)}
NextEvents ==
    \/ Connect(OneHost, Seeds, EventCapacity + 2)
    \/ Stubs
    \/ \E c \in Callers : info(c)
    \/ Registry(OneHost)
    \/ Tick

\* the server started at any of the start times
InitEvents ==
    /\ remote_hosts = <<>>
    /\ events = <<>>
    /\ created = <<>>
    /\ now \in StartTimes
    /\ lock = None
    /\ poisoned = FALSE
    /\ pc = [c \in Callers |-> "idle"]
    /\ req = [c \in Callers |-> None]
    /\ response = "none"
    /\ hostname_len \in HostnameLens
    /\ call = NoCall
    /\ file = Some(remote_hosts)
    /\ main_pc = "server"

SpecEvents == InitEvents /\ [][NextEvents]_vars

\* Concurrent connects only, from the empty registry: caller c registers its own
\* name and address
CallerHost(c) == Host("host" \o ToString(c), "10.42.0." \o ToString(c) \o "/32", None)
NextConcurrent ==
    \/ \E c \in Callers : Connect({CallerHost(c)}, Seeds, NumCallers + 1)
    \/ Tick

SpecConcurrent == Init /\ [][NextConcurrent]_vars

\* a call of generate_ipv6
Generate(global_id, subnet_id, iface_id, random) ==
    /\ call' = [fn |-> "generate_ipv6", global_id |-> global_id, subnet_id |-> subnet_id,
                iface_id |-> iface_id,
                result |-> generate_ipv6(global_id, subnet_id, iface_id, random)]
    /\ UNCHANGED <<remote_hosts, events, created, now, lock, poisoned, pc, req, response,
                   hostname_len, file, main_pc>>

\* a call of Interface::from_str on one block
FromStr(text) ==
    /\ call' = [fn |-> "from_str", text |-> text, result |-> from_str(text)]
    /\ UNCHANGED <<remote_hosts, events, created, now, lock, poisoned, pc, req, response,
                   hostname_len, file, main_pc>>

\* a call of Interface::local on a machine whose `ip addr show` prints `text`
Local(text) ==
    /\ call' = [fn |-> "local", text |-> text, result |-> local(text)]
    /\ UNCHANGED <<remote_hosts, events, created, now, lock, poisoned, pc, req, response,
                   hostname_len, file, main_pc>>

\* The pure functions of src/host.rs: a run makes one call, on any argument of the
\* bounded sets (they keep no state from one call to the next)
NextCalls ==
    \/ \E g \in Opt(GlobalIds), s \in Opt(SubnetIds), i \in Opt(IfaceIds), r \in IfaceIds :
          call = NoCall /\ Generate(g, s, i, r)
    \/ \E text \in Texts : call = NoCall /\ FromStr(text)
    \/ \E text \in Texts : call = NoCall /\ Local(text)

SpecCalls == Init /\ [][NextCalls]_vars

----------------------------------------------------------------------------
(* main, src/main.rs; Config::try_from_path, Config::default and Config::save, src/lib.rs *)

\* what a config file can hold: per address no host or a host of that address
FileHosts(a) == {Host(n, a, ls) : n \in Names, ls \in {None, Some(1)}}
Registries ==
    UNION {{m \in [as -> UNION {FileHosts(a) : a \in as}] :
               \A a \in as : m[a].wireguard_address = a} : as \in SUBSET Addrs}
Files == Opt(Registries)

IdleServer ==
    /\ events = <<>>
    /\ created = <<>>
    /\ now = 1
    /\ lock = None
    /\ poisoned = FALSE
    /\ pc = [c \in Callers |-> "idle"]
    /\ req = [c \in Callers |-> None]
    /\ response = "none"
    /\ call = NoCall

InitMain ==
    /\ IdleServer
    /\ remote_hosts = <<>>
    /\ hostname_len \in HostnameLens
    /\ file \in Files
    /\ main_pc = "start"

MainFrame == UNCHANGED <<events, created, now, lock, poisoned, pc, req, response,
                         hostname_len, call>>

\* main, the match on Config::try_from_path: the file's registry, or Config::default(),
\* whose uuidv1(Some(&host.name)).unwrap() panics on a host name uuidv1 refuses
MainLoad ==
    /\ main_pc = "start"
    /\ IF file # None
       THEN remote_hosts' = Unwrap(file) /\ main_pc' = "loaded"
       ELSE IF uuidv1(hostname_len, now, 0).ok
       THEN remote_hosts' = <<>> /\ main_pc' = "loaded"
       ELSE remote_hosts' = remote_hosts /\ main_pc' = "panicked"
    /\ UNCHANGED file
    /\ MainFrame

\* main, config.save(&config_path)
MainSave ==
    /\ main_pc = "loaded"
    /\ file' = Some(remote_hosts)
    /\ main_pc' = "saved"
    /\ UNCHANGED remote_hosts
    /\ MainFrame

\* main, the add-host arm: add_host(host).unwrap(), then main returns
MainAddHost(host) ==
    /\ main_pc = "saved"
    /\ remote_hosts' = add_host(remote_hosts, host).hosts
    /\ main_pc' = IF add_host(remote_hosts, host).ok THEN "exited" ELSE "panicked"
    /\ UNCHANGED file
    /\ MainFrame

\* main, the server arm: the server runs on the config
MainServer ==
    /\ main_pc = "saved"
    /\ main_pc' = "server"
    /\ UNCHANGED <<remote_hosts, file>>
    /\ MainFrame

\* main, the `_ => unreachable!()` arm, taken with the render subcommand and with
\* no subcommand: main panics
MainUnreachable ==
    /\ main_pc = "saved"
    /\ main_pc' = "panicked"
    /\ UNCHANGED <<remote_hosts, file>>
    /\ MainFrame

\* main up to its exit. The remove-host arm (main.rs:33-37) hands a &str to
\* remove_host, which takes an &IpNet: it does not type-check and has no step here.
NextMain ==
    \/ MainLoad
    \/ MainSave
    \/ \E host \in CliHosts : MainAddHost(host)
    \/ MainServer
    \/ MainUnreachable

SpecMain == InitMain /\ [][NextMain]_vars

----------------------------------------------------------------------------
(* The claims *)

Registered(a) == a \in DOMAIN remote_hosts
NameTaken(n) == \E a \in DOMAIN remote_hosts : remote_hosts[a].name = n

\* C1: a connect that returns Ok leaves, at the address of the submitted host, that
\* host with last_seen set to the server's clock, whether the address was registered
\* before or not.
C1_ConnectStoresHost ==
    [][\A c \in Callers :
          connect_update(c) =>
             LET host == TheReq(c)
             IN /\ host.wireguard_address \in DOMAIN remote_hosts'
                /\ remote_hosts'[host.wireguard_address] = [host EXCEPT !.last_seen = Some(now)]]_vars

\* C2: a connect for an address registered under another name is refused as a
\* conflict and the entry at that address stays as it was.
C2_ConflictRejected ==
    [][\A c \in Callers :
          (/\ connect_update(c)
           /\ Registered(TheReq(c).wireguard_address)
           /\ remote_hosts[TheReq(c).wireguard_address].name # TheReq(c).name)
          => (remote_hosts' = remote_hosts /\ response' # "connect")]_vars

\* C3: in every state reached from the empty registry by add_host, remove_host and
\* connect, no two entries of the registry have the same name (the entries are keyed
\* by address, so no two have the same address).
C3_UniqueNames ==
    \A a, b \in DOMAIN remote_hosts :
        /\ remote_hosts[a].wireguard_address = a
        /\ (a # b => remote_hosts[a].name # remote_hosts[b].name)

\* C4: add_host of a host whose address is the key of an entry with another name
\* fails and leaves that entry as it was.
C4_AddressConflict ==
    [][\A host \in CliHosts :
          (/\ AddHost(host)
           /\ Registered(host.wireguard_address)
           /\ remote_hosts[host.wireguard_address].name # host.name)
          => (~add_host(remote_hosts, host).ok /\ remote_hosts' = remote_hosts)]_vars

\* C5: add_host of a host whose name an entry already has returns the error and
\* the registry as it was; add_host of a host whose name and address are both
\* unused succeeds and every by-name view of the result resolves the name to it.
C5_AddHostByName ==
    \A host \in ConnectHosts :
        LET r == add_host(remote_hosts, host)
        IN /\ NameTaken(host.name) => (~r.ok /\ r.hosts = remote_hosts)
           /\ (~NameTaken(host.name) /\ ~Registered(host.wireguard_address)) =>
                 /\ r.ok
                 /\ DOMAIN r.hosts = DOMAIN remote_hosts \cup {host.wireguard_address}
                 /\ \A f \in hosts_by_name(r.hosts) :
                       host.name \in DOMAIN f /\ f[host.name] = host

\* C5 witness: the registry holds a host add_host inserted, so that a second host of
\* that name is refused while a host of the other name and address is accepted.
C5_Witness ==
    \E a \in DOMAIN remote_hosts :
        /\ remote_hosts[a] \in CliHosts
        /\ \E host \in CliHosts :
              host.name = remote_hosts[a].name /\ host.wireguard_address # a
        /\ \E host \in CliHosts :
              ~NameTaken(host.name) /\ ~Registered(host.wireguard_address)

\* what list() of the event log is: its events, most recent first
MostRecentFirst(cache) == [i \in 1 .. Len(cache) |-> cache[Len(cache) + 1 - i].value]
Literals == {"none", "connect", "disconnect", "list_events", "info", "500", "panic"}

\* C6: disconnect of a registered address records one Disconnect event that carries
\* the entry and then removes the entry; disconnect of an absent address changes
\* neither the registry nor the event log.
C6_DisconnectRemoves ==
    [][\A c \in Callers, a \in Addrs :
          disconnect(c, a) =>
             IF Registered(a)
             THEN /\ a \notin DOMAIN remote_hosts'
                  /\ Len(created') = Len(created) + 1
                  /\ Len(events') >= 1
                  /\ events'[Len(events')].value.data =
                        [kind |-> "Disconnect", host |-> remote_hosts[a]]
             ELSE remote_hosts' = remote_hosts /\ events' = events]_vars

\* C7: from the empty registry, once each of the N callers has connected its own
\* address and returned, the registry holds exactly those N entries.
C7_AllConnected ==
    (\A c \in Callers :
        /\ pc[c] = "idle"
        /\ \E i \in 1 .. Len(events) : events[i].value.data.host = CallerHost(c))
    => /\ Cardinality(DOMAIN remote_hosts) = NumCallers
       /\ \A c \in Callers : Registered(CallerHost(c).wireguard_address)

Distinct(ids) == \A i, j \in 1 .. Len(ids) : i # j => ids[i] # ids[j]
LastN(seq, n) == SubSeq(seq, Max(1, Len(seq) - n + 1), Len(seq))

\* C8: the event log never holds more than its capacity; while the events recorded
\* have distinct ids it holds the last EventCapacity of them in the order recorded,
\* each under its id, so that after EventCapacity + 1 of them the first is the one
\* missing.
C8_LogBounded ==
    /\ Len(events) <= EventCapacity
    /\ \A i \in 1 .. Len(events) : events[i].value.id = events[i].key
    /\ Distinct(created) =>
          /\ [i \in 1 .. Len(events) |-> events[i].key] = LastN(created, EventCapacity)
          /\ Len(created) = EventCapacity + 1 =>
                /\ Len(events) = EventCapacity
                /\ created[1] \notin Keys(events)
                /\ \A i \in 2 .. Len(created) : created[i] \in Keys(events)

\* C8 witness: EventCapacity + 1 events with distinct ids were recorded.
C8_Witness ==
    /\ Len(created) = EventCapacity + 1
    /\ Distinct(created)
    /\ Len(events) = EventCapacity

\* C9: list_events answers with the events the log holds, most recent first.
C9_ListEvents ==
    [][\A c \in Callers :
          list_events(c) =>
             (response' \notin Literals /\ response' = MostRecentFirst(events))]_vars

\* C10: any two events a process created have different ids, and the one created
\* first has the smaller id, also when both were created in the same second.
C10_IdsOrdered ==
    \A i, j \in 1 .. Len(created) :
        i < j => (created[i] # created[j] /\ IdLess(created[i], created[j]))

Fits40(gid) == gid[1] = 0 /\ gid[2] < 256
IsGenerate == call.fn = "generate_ipv6"

\* C11: for every global id below 2^40, every subnet id and every interface id,
\* generate_ipv6 returns an address: its top 7 bits are 1111110, the 40 bits after
\* the first 8 are the global id, the next 16 the subnet id, the low 64 the
\* interface id.
C11_GenerateLayout ==
    (IsGenerate /\ Fits40(UnwrapOr(call.global_id, Zero64))) =>
        /\ call.result.kind = "ok"
        /\ LET addr == call.result.addr
               gid == UnwrapOr(call.global_id, Zero64)
           IN /\ addr[1] \div 512 = 126
              /\ addr[1] % 256 = gid[2]
              /\ addr[2] = gid[3]
              /\ addr[3] = gid[4]
              /\ addr[4] = UnwrapOr(call.subnet_id, 0)
              /\ call.iface_id # None =>
                    <<addr[5], addr[6], addr[7], addr[8]>> = UnwrapOr(call.iface_id, Zero64)

\* C12: for every global id of 2^40 or more generate_ipv6 returns the out-of-range
\* error and no address.
C12_GenerateRange ==
    (IsGenerate /\ ~Fits40(UnwrapOr(call.global_id, Zero64))) =>
        call.result = [kind |-> "err", msg |-> "global_id may only be 40 bits wide"]

\* C12 witness: generate_ipv6 was called with 2^40 exactly and returned the error.
C12_Witness ==
    /\ IsGenerate
    /\ call.global_id = Some(<<0, 256, 0, 0>>)
    /\ call.result.kind = "err"

\* C13: remove_host removes the entry at the address it is given and changes no
\* other entry; on an address that is not registered it returns the registry as it
\* was, so a second remove_host of the same address changes nothing.
C13_RemoveHostFrame ==
    \A ip \in Addrs :
        LET r == remove_host(remote_hosts, ip)
        IN /\ DOMAIN r = DOMAIN remote_hosts \ {ip}
           /\ \A a \in DOMAIN r : r[a] = remote_hosts[a]
           /\ ip \notin DOMAIN remote_hosts => r = remote_hosts
           /\ remove_host(r, ip) = r

\* C13 witness: two hosts are registered, so that a removal has another entry to
\* leave alone.
C13_Witness == Cardinality(DOMAIN remote_hosts) = 2

\* C14: every handler (connect, disconnect, info, list_events) runs while it holds
\* the lock: none of them takes a step while another caller holds it, and at most
\* one caller is inside connect.
C14_AllUnderLock ==
    [][/\ \A c \in Callers :
             (\/ \E host \in ConnectHosts : connect_lock(c, host)
              \/ \E a \in Addrs : disconnect(c, a)
              \/ list_events(c)
              \/ info(c))
             => lock = None
       /\ \A c, d \in Callers : (pc'[c] # "idle" /\ pc'[d] # "idle") => c = d]_vars

\* C15: a connect that has taken the lock records exactly one Connect event, whose
\* host is the request body as submitted, and the registry is untouched until the
\* event is in the log.
C15_ConnectRecordsEvent ==
    [][\A c \in Callers :
          (pc[c] = "event" /\ pc'[c] # "event") =>
             /\ Len(created') = Len(created) + 1
             /\ Len(events') >= 1
             /\ events'[Len(events')].value.data = [kind |-> "Connect", host |-> TheReq(c)]
             /\ remote_hosts' = remote_hosts
             /\ pc'[c] = "update"]_vars

\* C16: the last_seen of every entry of the registry is absent or a reading of the
\* server's clock; the last_seen of a connect body (0 here) is never stored.
C16_LastSeenByServer ==
    \A a \in DOMAIN remote_hosts :
        \/ remote_hosts[a].last_seen = None
        \/ \E t \in 1 .. now : remote_hosts[a].last_seen = Some(t)

\* C16 witness: a host that submitted a last_seen of its own is registered, with the
\* server's stamp.
C16_Witness ==
    \E a \in DOMAIN remote_hosts, i \in 1 .. Len(events) :
        /\ events[i].value.data.host = [remote_hosts[a] EXCEPT !.last_seen = Some(0)]
        /\ remote_hosts[a].last_seen # None
        /\ \A c \in Callers : pc[c] = "idle"

\* C19: once the lock is poisoned it stays poisoned, every connect and every info
\* answers 500, no caller enters connect, and the registry and the event log stay
\* as they are.
C19_PoisonedForGood ==
    [][poisoned =>
          /\ poisoned'
          /\ remote_hosts' = remote_hosts
          /\ events' = events
          /\ pc' = pc
          /\ \A c \in Callers :
                ((\E host \in ConnectHosts : connect_lock(c, host)) \/ info(c))
                => response' = "500"]_vars

\* C19 witness: the lock is poisoned and a later call was answered 500.
C19_Witness == poisoned /\ response = "500"

\* C17: on every text, the empty one, a block of one line and a listing that does
\* not start with a header included, the parser returns a record (with no
\* addresses when no address line parses) or an error that names the field it
\* could not find; it never panics.
C17_ParseNeverPanics ==
    (call.fn \in {"from_str", "local"}) =>
        /\ call.result.kind \in {"ok", "err"}
        /\ call.result.kind = "err" =>
              call.result.msg \in {"unable to parse interface name",
                                   "unable to parse interface state",
                                   "unable to parse MAC address"}
        /\ (call.fn = "from_str" /\ call.result.kind = "ok"
            /\ \A i \in 1 .. Len(call.text) : call.text[i] # InetLine) =>
              call.result.interface.addresses = <<>>

\* C18: when main returns after a subcommand that changes the registry (add-host),
\* the file holds the registry main has in memory.
C18_SavedAtExit == main_pc = "exited" => file = Some(remote_hosts)

====
